---- MODULE Spec2Model ----
(***************************************************************************)
(* betterMT5: retrieval of candle series from the MetaTrader 5 terminal.   *)
(* Timestamps are epoch seconds.  A timezone-aware datetime is modelled by *)
(* the instant it denotes; a naive datetime, and a datetime "tagged UTC"   *)
(* that carries a broker wall-clock reading, by the epoch seconds of that  *)
(* reading taken as UTC (what .timestamp() gives, and what the terminal    *)
(* puts in the "time" column of a rate).                                   *)
(***************************************************************************)
EXTENDS Integers, Sequences, FiniteSets, TLC

VARIABLES
    \* ---- the BrokerClock conversions, applied to single dates and to runs
    cpc,        \* position of the conversion exercise
    date,       \* the instant of the timezone-aware input of localized_date_to_mt5
    zone,       \* the utcoffset of that input: the caller's zone
    mt5date,    \* its result: broker wall-clock reading, tagged UTC
    utcdate,    \* mt5_date_to_utc of that reading with the tag stripped
    run,        \* "time" column of consecutive candles as the terminal stamps them
    runtrue,    \* the true instants of those candles
    runtf,      \* the timeframe of the run
    runutc,     \* the column after mt5_date_to_utc
    \* ---- one Symbol.history call
    pc,         \* "idle", "fetch", "validate", "done"
    shape,      \* the method history dispatched to
    timeframe, datetime_from, datetime_to, start_pos, count,
    include_first, include_last,
    sent,       \* the arguments of the mt5.copy_rates_* call
    n,          \* loop variable of `for n in range(10)`
    calls,      \* number of mt5.copy_rates_* calls issued by this history call
    log,        \* the terminal's responses to those calls, in order
    rates,      \* the local `rates`
    outcome,    \* how the call ended
    given,      \* which of datetime_from, datetime_to, count history was passed
    \* ---- the Symbol class
    session,          \* a mt5.connected() context is active
    allowed_symbols,  \* Symbol.allowed_symbols: <<>> for None, <<names>> for the dict
    all,              \* Symbol.all, by name
    last,             \* the last Symbol(name) or Symbol.flush(): what it met and did
    \* ---- the boundary test of a range request's start
    tested,           \* the last start tested: what the test and the request made of it
    \* ---- one call of a function wrapped by load_symbol
    wpc,        \* "idle", "loop", "done"
    fn,         \* the wrapped function
    retries,    \* the passes its loop may make
    loaded,     \* what _mt5.symbol_select(symbol) answered
    selected,   \* the symbol is selected in the terminal on behalf of this call
    terminal,   \* the calls made to the terminal, in order
    responses,  \* the terminal's answers to the wrapped function, in order
    result,     \* how the call ended
    \* ---- one `with Connection(...)` statement
    kpc,                   \* "new", "body", "left"
    quiet,                 \* self.quiet
    real_trading_enabled,  \* self.real_trading_enabled
    account_info,          \* self.account_info
    config_file,           \* the file at self.config_path exists
    terminal_ini,          \* what lies at self.terminal_config_path
    process,               \* the terminal process: "none", "running", "terminated"
    pipeline,              \* the MT5 pipeline: "none", "initialized", "shutdown"
    steps,                 \* what the statement has done, in order
    raised                 \* the exception that left the statement

clockvars == <<cpc, date, zone, mt5date, utcdate, run, runtrue, runtf, runutc>>
callvars  == <<pc, shape, timeframe, datetime_from, datetime_to, start_pos, count,
               include_first, include_last, sent, n, calls, log, rates, outcome,
               given>>
symvars   == <<session, allowed_symbols, all, last>>
boundvars == <<tested>>
tradevars == <<wpc, fn, retries, loaded, selected, terminal, responses, result>>
connvars  == <<kpc, quiet, real_trading_enabled, account_info, config_file,
               terminal_ini, process, pipeline, steps, raised>>
auxvars   == <<boundvars, tradevars, connvars>>
vars == <<clockvars, callvars, symvars, auxvars>>

\* None in the place of a timestamp or a count; no timestamp and
\* no count of the model is negative.  An optional frame of rows is <<>> for
\* None and <<rows>> otherwise.
None == -1
NoTimeframe == "none"

(***************************************************************************)
(* TimeframeArithmetic                                                     *)
(***************************************************************************)
\* mt5.period_seconds(timeframe)
to_seconds(tf) ==
    CASE tf = "M1"  -> 60
      [] tf = "M5"  -> 300
      [] tf = "M30" -> 1800
      [] tf = "H1"  -> 3600
      [] tf = "H4"  -> 14400
      [] tf = "D1"  -> 86400

\* timedelta(seconds=to_seconds(timeframe)): a timedelta is its seconds
to_timedelta(tf) == to_seconds(tf)

Abs(x) == IF x < 0 THEN -x ELSE x

\* the abs() forgotten
are_datetimes_eq_signed(date1, date2, window) == date1 - date2 <= window

\* abs((date1 - date2).total_seconds()) <= window
are_datetimes_eq(date1, date2, window) == Abs(date1 - date2) <= window

\* within the first second of the range
is_datetime_within_first_second(time, tf) ==
    time % to_seconds(tf) <= 1

\* time.timestamp() % to_seconds(timeframe) == 0
is_datetime_exactly_at_start_of_timeframe_range(time, tf) ==
    time % to_seconds(tf) = 0

(***************************************************************************)
(* BrokerClock.  pytz's US/Eastern for 2021: daylight saving time runs     *)
(* from 2021-03-14 07:00:00Z (02:00 EST) to 2021-11-07 06:00:00Z (02:00    *)
(* EDT).  Every instant of the model lies in 2021.                         *)
(***************************************************************************)
DstStart == 1615705200
DstEnd   == 1636264800

\* offsets of the fixed zones Etc/GMT-2 and Etc/GMT-3, in seconds east of UTC
Gmt2 == 2 * to_seconds("H1")
Gmt3 == 3 * to_seconds("H1")

\* bool(d.astimezone(nytz).dst()) for the instant u
ny_dst(u) == DstStart <= u /\ u < DstEnd

\* a timezone-aware datetime is its wall-clock reading and its utcoffset, in
\* seconds; its instant is the reading less the offset
aware(wall, off) == [wall |-> wall, utcoffset |-> off]
in_utc(u) == aware(u, 0)
timestamp(a) == a.wall - a.utcoffset

\* a.astimezone(tz) for a zone of utcoffset off: the same instant, read there
astimezone(a, off) == aware(timestamp(a) + off, off)

\* a.replace(tzinfo=pytz.UTC): the reading kept, the tag changed; being in
\* UTC, the result is written as its instant
replace_tzinfo_utc(a) == a.wall

\* utcoffset of US/Eastern at the instant u: EDT is UTC-4, EST is UTC-5
ny_utcoffset(u) == IF ny_dst(u) THEN 0 - 4 * to_seconds("H1") ELSE 0 - 5 * to_seconds("H1")

\* the caller's reading taken for the instant: replace() where astimezone() is
localized_date_to_mt5_by_reading(d) ==
    IF ny_dst(d.wall) THEN d.wall + Gmt3 ELSE d.wall + Gmt2

\* nydate = date.astimezone(nytz); by bool(nydate.dst()) the result is
\* date.astimezone(gmt3) or date.astimezone(gmt2), with .replace(tzinfo=pytz.UTC)
localized_date_to_mt5(d) ==
    LET nydate == astimezone(d, ny_utcoffset(timestamp(d)))
    IN  IF ny_dst(timestamp(nydate))
        THEN replace_tzinfo_utc(astimezone(d, Gmt3))
        ELSE replace_tzinfo_utc(astimezone(d, Gmt2))

\* the datetime branch (lines 97-112): gmtN.localize(date) is the instant at
\* which a UTC+N clock reads `date`; the DST test is made on the GMT+2 one
mt5_date_to_utc(d) ==
    LET gmt2date == d - Gmt2
        gmt3date == d - Gmt3
        nydate   == gmt2date
    IN  IF ny_dst(nydate) THEN gmt3date ELSE gmt2date

\* the DataFrame branch (lines 117-128): an empty frame is returned as it is,
\* otherwise the function is mapped over the "time" column
mt5_rates_to_utc(rows) ==
    IF Len(rows) = 0 THEN rows
    ELSE [i \in 1..Len(rows) |-> mt5_date_to_utc(rows[i])]

\* the terminal's stamp of a candle that opens at the instant u: broker
\* wall-clock, UTC+3 while US-Eastern DST is active and UTC+2 otherwise
broker_stamp(u) == IF ny_dst(u) THEN u + Gmt3 ELSE u + Gmt2

(***************************************************************************)
(* The conversions exercised on their own: a date is localized and         *)
(* converted back; a run of consecutive candles is stamped by the terminal *)
(* and converted row by row.                                               *)
(***************************************************************************)
\* instants lie within NearSteps steps of ClockStep around each transition,
\* plus one in mid-winter and one in mid-summer
NearSteps == 8
MaxRun    == 3
ClockStep == to_seconds("M30")
\* 2021-01-06T11:25:00Z and 2021-06-22T07:00:00Z
MidWinter == DstStart - 67 * to_seconds("D1") + 4 * to_seconds("H1") + 5 * to_seconds("M5")
MidSummer == DstStart + 100 * to_seconds("D1")

Instants ==
    { DstStart + k * ClockStep : k \in -NearSteps..NearSteps } \cup
    { DstEnd   + k * ClockStep : k \in -NearSteps..NearSteps } \cup
    { MidWinter, MidSummer }

RunTimeframes == {"M5", "M30", "H1"}

\* utcoffsets of the zones callers write their dates in: UTC, UTC+1, UTC-5
\* and UTC+5:30
CallerZones == {0, to_seconds("H1"), 0 - 5 * to_seconds("H1"), 11 * to_seconds("M30")}

InitClock ==
    /\ cpc = "pick"
    /\ date = None /\ zone = 0 /\ mt5date = None /\ utcdate = None
    /\ run = <<>> /\ runtrue = <<>> /\ runtf = NoTimeframe /\ runutc = <<>>

\* the caller writes the instant u in the zone z and has it localized
Localize(u, z) ==
    /\ cpc = "pick"
    /\ date' = u
    /\ zone' = z
    /\ mt5date' = localized_date_to_mt5(aware(u + z, z))
    /\ cpc' = "localized"
    /\ UNCHANGED <<utcdate, run, runtrue, runtf, runutc>>
    /\ UNCHANGED <<callvars, symvars, auxvars>>

ToUtc ==
    /\ cpc = "localized"
    /\ utcdate' = mt5_date_to_utc(mt5date)
    /\ cpc' = "utc"
    /\ UNCHANGED <<date, zone, mt5date, run, runtrue, runtf, runutc>>
    /\ UNCHANGED <<callvars, symvars, auxvars>>

\* the terminal holds candles at u, u + d, ... and returns them gapless
StampRun(u, tf, len) ==
    /\ cpc = "pick"
    /\ runtf' = tf
    /\ runtrue' = [i \in 1..len |-> u + (i - 1) * to_seconds(tf)]
    /\ run' = [i \in 1..len |-> broker_stamp(u + (i - 1) * to_seconds(tf))]
    /\ cpc' = "stamped"
    /\ UNCHANGED <<date, zone, mt5date, utcdate, runutc>>
    /\ UNCHANGED <<callvars, symvars, auxvars>>

ConvertRun ==
    /\ cpc = "stamped"
    /\ runutc' = mt5_rates_to_utc(run)
    /\ cpc' = "converted"
    /\ UNCHANGED <<date, zone, mt5date, utcdate, run, runtrue, runtf>>
    /\ UNCHANGED <<callvars, symvars, auxvars>>

ClockAgain ==
    /\ cpc \in {"utc", "converted"}
    /\ cpc' = "pick"
    /\ date' = None /\ zone' = 0 /\ mt5date' = None /\ utcdate' = None
    /\ run' = <<>> /\ runtrue' = <<>> /\ runtf' = NoTimeframe /\ runutc' = <<>>
    /\ UNCHANGED <<callvars, symvars, auxvars>>

NextClock ==
    \/ \E u \in Instants, z \in CallerZones : Localize(u, z)
    \/ ToUtc
    \/ \E u \in Instants, tf \in RunTimeframes, len \in 1..MaxRun : StampRun(u, tf, len)
    \/ ConvertRun
    \/ ClockAgain

(***************************************************************************)
(* Symbol.history and the three methods it dispatches to.                  *)
(***************************************************************************)
\* how a call ends
Returned(series) == [kind |-> "returned", value |-> series]

\* UnexpectedValueError.__init__
UnexpectedValueError(expected, actual, r) ==
    [kind |-> "UnexpectedValueError", expected |-> expected, actual |-> actual,
     diff |-> expected - actual, rates |-> r]

\* rates['time'].iloc[-1] of a frame without rows: IndexError when the frame
\* has the column, KeyError when it has not; both are LookupErrors
LookupError == [kind |-> "LookupError"]

AttributeError == [kind |-> "AttributeError"]

NoOutcome == [kind |-> "none"]

\* range(11)
FetchAttemptsOneMore == 10 + 1

\* for n in range(10)
FetchAttempts == 10

processed_when_two_rows(r) == Len(r) > 1

processed_never(r) == FALSE

\* if len(rates) > 0: break
processed(r) == Len(r) > 0

\* ceil(a / b) of non-negative a, positive b
ceil_div(a, b) == (a + b - 1) \div b

bool_int(b) == IF b THEN 1 ELSE 0

from_pos_check_at_least(r, cnt) ==
    LET df == mt5_rates_to_utc(r)
    IN  IF Len(df) < cnt
        THEN UnexpectedValueError(cnt, Len(df), <<df>>)
        ELSE Returned(df)

\* get_rates_from_pos after its loop (lines 205-210)
get_rates_from_pos_check(r, cnt) ==
    LET df == mt5_rates_to_utc(r)
    IN  IF Len(df) # cnt
        THEN UnexpectedValueError(cnt, Len(df), <<df>>)
        ELSE Returned(df)

\* get_rates_from after its loop (lines 227-242)
get_rates_from_check(r, tf, dfrom, cnt) ==
    LET df == mt5_rates_to_utc(r)
        exp_datetime_to == dfrom - to_timedelta(tf) * (cnt - 1)
    IN  IF Len(df) = 0 THEN LookupError
        ELSE IF ~are_datetimes_eq(df[Len(df)], dfrom, to_seconds(tf))
        THEN UnexpectedValueError(dfrom, df[Len(df)], <<>>)
        ELSE IF ~are_datetimes_eq(df[1], exp_datetime_to, to_seconds(tf))
        THEN UnexpectedValueError(exp_datetime_to, df[1], <<>>)
        ELSE Returned(df)

range_from_adj_back_whenever_included(tf, dfrom, inf) ==
    IF inf THEN localized_date_to_mt5(in_utc(dfrom)) - to_timedelta(tf)
    ELSE localized_date_to_mt5(in_utc(dfrom)) + to_timedelta(tf)

\* datetime_from_adj of get_rates_range (lines 251-265)
range_from_adj(tf, dfrom, inf) ==
    LET datetime_from_adj == localized_date_to_mt5(in_utc(dfrom))
        offset == to_timedelta(tf)
    IN  IF is_datetime_exactly_at_start_of_timeframe_range(dfrom, tf)
        THEN IF ~inf THEN datetime_from_adj + offset ELSE datetime_from_adj
        ELSE IF inf THEN datetime_from_adj - offset ELSE datetime_from_adj

\* datetime_to_adj of get_rates_range (lines 252-271)
range_to_adj(tf, dto, inl) ==
    LET datetime_to_adj == localized_date_to_mt5(in_utc(dto))
        offset == to_timedelta(tf)
    IN  IF ~inl THEN datetime_to_adj - offset ELSE datetime_to_adj

\* the span divided with // instead of ceil(/)
exp_candles_floor(tf, dfrom, dto, inf, inl) ==
    (Abs(dto - dfrom) \div to_seconds(tf)) + bool_int(inf) + bool_int(inl) - 1

\* exp_candles of get_rates_range (lines 297-302)
exp_candles(tf, dfrom, dto, inf, inl) ==
    ceil_div(Abs(dto - dfrom), to_seconds(tf)) + bool_int(inf) + bool_int(inl) - 1

\* the timestamps compared with the values sent to the terminal, taken back
\* to UTC, instead of the caller's
range_check_against_sent(r, tf, dfrom, dto, inf, inl) ==
    LET df == mt5_rates_to_utc(r)
        sfrom == mt5_date_to_utc(range_from_adj(tf, dfrom, inf))
        sto == mt5_date_to_utc(range_to_adj(tf, dto, inl))
        exp == exp_candles(tf, dfrom, dto, inf, inl)
    IN  IF Len(df) = 0 THEN LookupError
        ELSE IF ~are_datetimes_eq(df[1], sfrom, to_seconds(tf))
        THEN UnexpectedValueError(sfrom, df[1], <<>>)
        ELSE IF ~are_datetimes_eq(df[Len(df)], sto, to_seconds(tf))
        THEN UnexpectedValueError(sto, df[Len(df)], <<>>)
        ELSE IF Abs(Len(df) - exp) > 0
        THEN UnexpectedValueError(exp, Len(df), <<df>>)
        ELSE Returned(df)

\* get_rates_range after its loop (lines 282-307)
get_rates_range_check(r, tf, dfrom, dto, inf, inl) ==
    LET df == mt5_rates_to_utc(r)
        exp == exp_candles(tf, dfrom, dto, inf, inl)
    IN  IF Len(df) = 0 THEN LookupError
        ELSE IF ~are_datetimes_eq(df[1], dfrom, to_seconds(tf))
        THEN UnexpectedValueError(dfrom, df[1], <<>>)
        ELSE IF ~are_datetimes_eq(df[Len(df)], dto, to_seconds(tf))
        THEN UnexpectedValueError(dto, df[Len(df)], <<>>)
        ELSE IF Abs(Len(df) - exp) > 0
        THEN UnexpectedValueError(exp, Len(df), <<df>>)
        ELSE Returned(df)

(***************************************************************************)
(* The arguments a caller passes and the rows the terminal answers with.   *)
(***************************************************************************)
MaxRows  == 2
MaxCount == 2

Base == MidWinter

Timeframes == {"M1", "M5"}

\* on the M1 and M5 grids; on the M1 grid only; on neither
Starts == {Base, Base + to_seconds("M1"), Base + to_seconds("M1") \div 2}
Ends   == {Base + to_seconds("M5"), Base + to_seconds("M5") + to_seconds("M1") \div 2}
Counts == 0..MaxCount
Positions == {0, 1}

\* the "time" column of a response: broker stamps of candles around Base, in
\* any order and number (a response is not assumed to be well-formed).  A
\* response is always an array of rows, possibly empty, as len(rates) takes
\* it to be; the other columns of a rate play no part in the methods.
RowStamps == { broker_stamp(Base + k * to_seconds("M5")) : k \in -1..2 }
Responses == UNION { [1..k -> RowStamps] : k \in 0..MaxRows }

NoCall == [fn |-> "none", a |-> None, b |-> None]

NothingGiven == [datetime_from |-> FALSE, datetime_to |-> FALSE, count |-> FALSE]

\* count looked at before datetime_to
history_dispatch_count_first(dfrom, dto, cnt) ==
    IF cnt # None
    THEN IF dfrom # None THEN "get_rates_from" ELSE "get_rates_from_pos"
    ELSE IF dfrom # None /\ dto # None THEN "get_rates_range" ELSE "none"

\* the tests of Symbol.history (lines 319-340), in their order
history_dispatch(dfrom, dto, cnt) ==
    IF dfrom # None /\ dto # None THEN "get_rates_range"
    ELSE IF dfrom # None /\ cnt # None THEN "get_rates_from"
    ELSE IF cnt # None THEN "get_rates_from_pos"
    ELSE "none"

InitCall ==
    /\ pc = "idle"
    /\ shape = "none"
    /\ timeframe = NoTimeframe
    /\ datetime_from = None /\ datetime_to = None
    /\ start_pos = None /\ count = None
    /\ include_first = TRUE /\ include_last = TRUE
    /\ sent = NoCall
    /\ n = 0 /\ calls = 0 /\ log = <<>> /\ rates = <<>>
    /\ outcome = NoOutcome
    /\ given = NothingGiven

\* Symbol.history (lines 319-340) up to the loop of the method it selects;
\* each method receives only its own parameters
History(tf, dfrom, dto, sp, cnt, inf, inl) ==
    /\ pc = "idle"
    /\ timeframe' = tf
    /\ n' = 0 /\ calls' = 0 /\ log' = <<>> /\ rates' = <<>>
    /\ given' = [datetime_from |-> dfrom # None, datetime_to |-> dto # None,
                 count |-> cnt # None]
    /\ \/ /\ history_dispatch(dfrom, dto, cnt) = "get_rates_range"
          /\ shape' = "get_rates_range"
          /\ datetime_from' = dfrom /\ datetime_to' = dto
          /\ include_first' = inf /\ include_last' = inl
          /\ start_pos' = None /\ count' = None
          /\ sent' = [fn |-> "copy_rates_range",
                      a |-> range_from_adj(tf, dfrom, inf),
                      b |-> range_to_adj(tf, dto, inl)]
          /\ pc' = "fetch" /\ outcome' = NoOutcome
       \/ /\ history_dispatch(dfrom, dto, cnt) = "get_rates_from"
          /\ shape' = "get_rates_from"
          /\ datetime_from' = dfrom /\ count' = cnt
          /\ datetime_to' = None /\ start_pos' = None
          /\ include_first' = TRUE /\ include_last' = TRUE
          /\ sent' = [fn |-> "copy_rates_from",
                      a |-> localized_date_to_mt5(in_utc(dfrom)), b |-> cnt]
          /\ pc' = "fetch" /\ outcome' = NoOutcome
       \/ /\ history_dispatch(dfrom, dto, cnt) = "get_rates_from_pos"
          /\ shape' = "get_rates_from_pos"
          /\ start_pos' = sp /\ count' = cnt
          /\ datetime_from' = None /\ datetime_to' = None
          /\ include_first' = TRUE /\ include_last' = TRUE
          /\ sent' = [fn |-> "copy_rates_from_pos", a |-> sp, b |-> cnt]
          /\ pc' = "fetch" /\ outcome' = NoOutcome
       \/ /\ history_dispatch(dfrom, dto, cnt) = "none"
          /\ shape' = "none"
          /\ datetime_from' = None /\ datetime_to' = None
          /\ start_pos' = None /\ count' = None
          /\ include_first' = TRUE /\ include_last' = TRUE
          /\ sent' = NoCall
          /\ pc' = "done" /\ outcome' = AttributeError
    /\ UNCHANGED <<clockvars, symvars, auxvars>>

\* one pass of the loop `for n in range(10)`: the terminal call, the test of
\* its result, and the sleep before the next pass
Fetch(response) ==
    /\ pc = "fetch"
    /\ n < FetchAttempts
    /\ calls' = calls + 1
    /\ log' = Append(log, response)
    /\ rates' = response
    /\ IF processed(response) \/ n + 1 = FetchAttempts
       THEN pc' = "validate" /\ n' = n
       ELSE pc' = "fetch" /\ n' = n + 1
    /\ UNCHANGED <<shape, timeframe, datetime_from, datetime_to, start_pos, count,
                   include_first, include_last, sent, outcome, given>>
    /\ UNCHANGED <<clockvars, symvars, auxvars>>

\* the rest of the method: the rows go through mt5_date_to_utc and the checks
Validate ==
    /\ pc = "validate"
    /\ outcome' =
         CASE shape = "get_rates_from_pos" ->
                get_rates_from_pos_check(rates, count)
           [] shape = "get_rates_from" ->
                get_rates_from_check(rates, timeframe, datetime_from, count)
           [] shape = "get_rates_range" ->
                get_rates_range_check(rates, timeframe, datetime_from, datetime_to,
                                      include_first, include_last)
    /\ rates' = mt5_rates_to_utc(rates)
    /\ pc' = "done"
    /\ UNCHANGED <<shape, timeframe, datetime_from, datetime_to, start_pos, count,
                   include_first, include_last, sent, n, calls, log, given>>
    /\ UNCHANGED <<clockvars, symvars, auxvars>>

\* a return that also called Symbol.flush()
ReturnFlushing ==
    /\ pc = "done"
    /\ pc' = "idle"
    /\ shape' = "none"
    /\ timeframe' = NoTimeframe
    /\ datetime_from' = None /\ datetime_to' = None
    /\ start_pos' = None /\ count' = None
    /\ include_first' = TRUE /\ include_last' = TRUE
    /\ sent' = NoCall
    /\ n' = 0 /\ calls' = 0 /\ log' = <<>> /\ rates' = <<>>
    /\ outcome' = NoOutcome
    /\ given' = NothingGiven
    /\ all' = <<>> /\ allowed_symbols' = <<>>
    /\ UNCHANGED <<session, last>>
    /\ UNCHANGED <<clockvars, auxvars>>

\* the caller has the series or the exception; the frame is gone
Return ==
    /\ pc = "done"
    /\ pc' = "idle"
    /\ shape' = "none"
    /\ timeframe' = NoTimeframe
    /\ datetime_from' = None /\ datetime_to' = None
    /\ start_pos' = None /\ count' = None
    /\ include_first' = TRUE /\ include_last' = TRUE
    /\ sent' = NoCall
    /\ n' = 0 /\ calls' = 0 /\ log' = <<>> /\ rates' = <<>>
    /\ outcome' = NoOutcome
    /\ given' = NothingGiven
    /\ UNCHANGED <<clockvars, symvars, auxvars>>

\* every combination of present and absent datetime_from, datetime_to, count
AllArgs == (Starts \cup {None}) \X (Ends \cup {None}) \X (Counts \cup {None})

\* the combinations without an argument that the selected method does not
\* receive (count with a range, datetime_to with a position): a call with
\* such an argument runs the same method on the same parameters
PlainArgs ==
    { a \in AllArgs :
        /\ history_dispatch(a[1], a[2], a[3]) = "get_rates_range" => a[3] = None
        /\ history_dispatch(a[1], a[2], a[3]) = "get_rates_from_pos" => a[2] = None }

Next ==
    \/ \E tf \in Timeframes, a \in PlainArgs, sp \in Positions,
          inf \in BOOLEAN, inl \in BOOLEAN :
            History(tf, a[1], a[2], sp, a[3], inf, inl)
    \/ \E response \in Responses : Fetch(response)
    \/ Validate
    \/ Return

\* the dispatch of history over every combination of arguments, against a
\* terminal that answers with no row or with the one candle at Base
DispatchResponses == { r \in Responses : Len(r) <= 1 /\ \A i \in 1..Len(r) : r[i] = broker_stamp(Base) }

NextDispatch ==
    \/ \E tf \in Timeframes, a \in AllArgs, sp \in Positions,
          inf \in BOOLEAN, inl \in BOOLEAN :
            History(tf, a[1], a[2], sp, a[3], inf, inl)
    \/ \E response \in DispatchResponses : Fetch(response)
    \/ Validate
    \/ Return

(***************************************************************************)
(* Range requests against a terminal that holds a gapless grid of candles  *)
(* and answers copy_rates_range with every candle whose stamp lies in the  *)
(* closed range it is sent.                                                *)
(***************************************************************************)
GridHalfSteps == 6

GridTimeframes == {"M5", "M30"}

\* a mid-winter instant on the grid of tf, and the start of the last hour of
\* daylight saving time
GridAnchors(tf) == { (Base \div to_seconds(tf)) * to_seconds(tf), DstEnd - to_seconds("H1") }

\* start and end in half durations from the anchor, start before end
GridRequests ==
    UNION { { <<tf, anchor + i * (to_seconds(tf) \div 2),
                    anchor + j * (to_seconds(tf) \div 2)>> :
                anchor \in GridAnchors(tf),
                i \in 0..GridHalfSteps, j \in 0..GridHalfSteps } :
            tf \in GridTimeframes }

\* the opening instants of the candles that carry the stamp s
stamped_instants(s) == { u \in {s - Gmt3, s - Gmt2} : broker_stamp(u) = s }

RECURSIVE ascending(_)
ascending(S) ==
    IF S = {} THEN <<>>
    ELSE LET m == CHOOSE x \in S : \A y \in S : x <= y
         IN  <<m>> \o ascending(S \ {m})

\* the answer to copy_rates_range(symbol, tf, a, b): the candles of the grid
\* stamped within [a, b], oldest first
terminal_range(tf, a, b) ==
    LET d == to_seconds(tf)
        first == ceil_div(a, d) * d
        stamps == IF b < first THEN {}
                  ELSE { first + k * d : k \in 0..((b - first) \div d) }
        opened == ascending(UNION { stamped_instants(s) : s \in stamps })
    IN  [i \in 1..Len(opened) |-> broker_stamp(opened[i])]

NextGrid ==
    \/ \E q \in GridRequests, inf \in BOOLEAN, inl \in BOOLEAN :
          q[2] < q[3] /\ History(q[1], q[2], q[3], 0, None, inf, inl)
    \/ Fetch(terminal_range(timeframe, sent.a, sent.b))
    \/ Validate
    \/ Return

(***************************************************************************)
(* The Symbol class: the registry Symbol.allowed_symbols, the list         *)
(* Symbol.all, construction and flush, inside and outside a terminal       *)
(* session.                                                                *)
(***************************************************************************)
\* the names mt5.symbols_get() lists, and the names a caller tries
BrokerSymbols == {"EURUSD", "GBPJPY", "XAUUSD"}
Names == BrokerSymbols \cup {"NOSUCH"}

NoOp == [op |-> "none", name |-> "", after |-> "none", was_populated |-> FALSE,
         was_session |-> FALSE, mt5calls |-> <<>>, result |-> "none"]

InitSymbol ==
    /\ session = FALSE
    /\ allowed_symbols = <<>>
    /\ all = <<>>
    /\ last = NoOp

\* mt5.symbols_get(): the broker's symbols inside a session; outside one it
\* gives None, and iterating None is the TypeError of line 164
symbols_get(sess) == IF sess THEN <<BrokerSymbols>> ELSE <<>>

always_populate(reg) == TRUE

\* if Symbol.allowed_symbols is None
needs_population(reg) == reg = <<>>

name_always_allowed(value, reg) == TRUE

\* the test of the name setter: value in Symbol.allowed_symbols
name_allowed(value, reg) == value \in reg[1]

never_in_all(name, lst) == FALSE

\* self._name in [s.name for s in Symbol.all]
in_all(name, lst) == \E i \in 1..Len(lst) : lst[i] = name

\* with mt5.connected(): entered and left
Connect ==
    /\ ~session
    /\ session' = TRUE
    /\ UNCHANGED <<allowed_symbols, all, last>>
    /\ UNCHANGED <<clockvars, callvars, auxvars>>

Disconnect ==
    /\ session
    /\ session' = FALSE
    /\ UNCHANGED <<allowed_symbols, all, last>>
    /\ UNCHANGED <<clockvars, callvars, auxvars>>

\* Symbol.__init__ with the name setter
SymbolInit(name) ==
    LET fetch == needs_population(allowed_symbols)
        got == IF fetch THEN symbols_get(session) ELSE allowed_symbols
        met == [op |-> "Symbol", name |-> name, after |-> last.op,
                was_populated |-> allowed_symbols # <<>>, was_session |-> session,
                mt5calls |-> IF fetch THEN <<"symbols_get">> ELSE <<>>,
                result |-> "none"]
    IN  /\ allowed_symbols' = got
        /\ IF got = <<>>
           THEN \* TypeError at line 163, ValueError at 165
                /\ all' = all
                /\ last' = [met EXCEPT !.result = "ValueError"]
           ELSE IF ~name_allowed(name, got)
           THEN \* ValueError of the setter, line 186
                /\ all' = all
                /\ last' = [met EXCEPT !.result = "ValueError"]
           ELSE /\ all' = IF in_all(name, all) THEN all ELSE Append(all, name)
                /\ last' = [met EXCEPT !.result = "ok"]
        /\ UNCHANGED session
        /\ UNCHANGED <<clockvars, callvars, auxvars>>

\* Symbol.flush
Flush ==
    /\ all' = <<>>
    /\ allowed_symbols' = <<>>
    /\ last' = [op |-> "flush", name |-> "", after |-> last.op,
                was_populated |-> allowed_symbols # <<>>, was_session |-> session,
                mt5calls |-> <<>>, result |-> "ok"]
    /\ UNCHANGED session
    /\ UNCHANGED <<clockvars, callvars, auxvars>>

NextSymbol ==
    \/ Connect
    \/ Disconnect
    \/ \E name \in Names : SymbolInit(name)
    \/ Flush

(***************************************************************************)
(* The boundary test on its own, over every timeframe, as get_rates_range  *)
(* applies it to the start of a request.                                   *)
(***************************************************************************)
BoundarySteps == 2

AllTimeframes == {"M1", "M5", "M30", "H1", "H4", "D1"}

\* 2021-01-06T00:00:00Z and 2021-06-22T00:00:00Z
BoundaryAnchors == { (MidWinter \div to_seconds("D1")) * to_seconds("D1"),
                     (MidSummer \div to_seconds("D1")) * to_seconds("D1") }

\* the anchors, the instants up to BoundarySteps durations of each timeframe
\* after them, and the second after each of these
BoundaryTimes ==
    { anchor + k * to_seconds(tf) + e :
        anchor \in BoundaryAnchors, tf \in AllTimeframes,
        k \in 0..BoundarySteps, e \in {0, 1} }

NoBoundary == [time |-> None, timeframe |-> NoTimeframe, include_first |-> TRUE,
               at_start |-> FALSE, local |-> None, sent |-> None]

InitBoundary == tested = NoBoundary

\* lines 251-262 of get_rates_range: the start is localized, tested as the
\* caller gave it, and shifted
TestBoundary(t, tf, inf) ==
    /\ tested = NoBoundary
    /\ tested' = [time |-> t, timeframe |-> tf, include_first |-> inf,
                    at_start |-> is_datetime_exactly_at_start_of_timeframe_range(t, tf),
                    local |-> localized_date_to_mt5(in_utc(t)),
                    sent |-> range_from_adj(tf, t, inf)]
    /\ UNCHANGED <<clockvars, callvars, symvars, tradevars, connvars>>

TestAgain ==
    /\ tested # NoBoundary
    /\ tested' = NoBoundary
    /\ UNCHANGED <<clockvars, callvars, symvars, tradevars, connvars>>

NextBoundary ==
    \/ \E t \in BoundaryTimes, tf \in AllTimeframes, inf \in BOOLEAN : TestBoundary(t, tf, inf)
    \/ TestAgain

(***************************************************************************)
(* load_symbol and the functions it wraps: symbol_info, symbol_info_tick   *)
(* and order_send.  The terminal's answers are told apart as far as the    *)
(* code tells them apart.                                                  *)
(***************************************************************************)
MaxRetries == 3

\* range(10) of symbol_info and symbol_info_tick
InfoAttempts == 10

Wrapped == {"symbol_info", "symbol_info_tick", "order_send"}

\* answers of _mt5.order_send: None, or a result with one of these retcodes
OrderResponses == {"None", "REQUOTE", "PRICE_OFF", "DONE", "REJECT"}
\* answers of _mt5.symbol_info: None, or an info with trade_tick_value 0 or 1
InfoResponses  == {"None", "trade_tick_value=0", "trade_tick_value=1"}
\* answers of _mt5.symbol_info_tick: None, or a tick with time 0, 1 or 2
TickResponses  == {"None", "time=0", "time=1", "time=2"}

answers(f) ==
    CASE f = "order_send"       -> OrderResponses
      [] f = "symbol_info"      -> InfoResponses
      [] f = "symbol_info_tick" -> TickResponses

returns(value) == [kind |-> "returned", value |-> value]
raises(error)  == [kind |-> error, value |-> "None"]
NoResult       == [kind |-> "none", value |-> "None"]

\* the passes of the loop of f
passes(f, k) == IF f = "order_send" THEN k ELSE InfoAttempts

resubmit_unless_none(resp) == resp # "None"

\* order_send submits again: r is not None and its retcode is REQUOTE or
\* PRICE_OFF
resubmit(resp) == resp \in {"REQUOTE", "PRICE_OFF"}

\* the pass that received resp leaves the loop of f, by return, break or
\* exception
leaves_loop(f, resp) ==
    CASE f = "order_send"       -> ~resubmit(resp)
      [] f = "symbol_info"      -> resp # "trade_tick_value=0"
      [] f = "symbol_info_tick" -> resp \in {"None", "time=2"}

\* what f ends with after its last pass received resp
ends_with(f, resp) ==
    CASE f = "order_send" -> returns(resp)
      [] f = "symbol_info" ->
           IF resp = "None" THEN raises("AttributeError")
           ELSE IF resp = "trade_tick_value=0" THEN returns("None")
           ELSE returns(resp)
      [] f = "symbol_info_tick" ->
           IF resp = "None" THEN raises("AttributeError")
           ELSE IF resp = "time=0" THEN raises("MT5Error")
           ELSE returns(resp)

\* line 21 is reached: the wrapped function returned
deselects(res) == res.kind = "returned"

InitTrade ==
    /\ wpc = "idle"
    /\ fn = "none"
    /\ retries = 0
    /\ loaded = FALSE
    /\ selected = FALSE
    /\ terminal = <<>>
    /\ responses = <<>>
    /\ result = NoResult

\* the end of the wrapped function with res, and the rest of the wrapper
finish(res) ==
    /\ result' = res
    /\ wpc' = "done"
    /\ IF deselects(res)
       THEN /\ terminal' = terminal \o <<fn, "symbol_select(False)">>
            /\ selected' = FALSE
       ELSE /\ terminal' = Append(terminal, fn)
            /\ selected' = selected

\* wrapper, lines 15-19, up to the loop of the wrapped function
Call(f, k, ok) ==
    /\ wpc = "idle"
    /\ fn' = f
    /\ retries' = passes(f, k)
    /\ loaded' = ok
    /\ responses' = <<>>
    /\ IF ~ok
       THEN /\ result' = raises("MT5Error")
            /\ terminal' = <<"symbol_select">>
            /\ selected' = FALSE
            /\ wpc' = "done"
       ELSE IF passes(f, k) = 0
       THEN \* order_send with no pass: `return r` with r unbound
            /\ result' = raises("UnboundLocalError")
            /\ terminal' = <<"symbol_select">>
            /\ selected' = TRUE
            /\ wpc' = "done"
       ELSE /\ result' = NoResult
            /\ terminal' = <<"symbol_select">>
            /\ selected' = TRUE
            /\ wpc' = "loop"
    /\ UNCHANGED <<clockvars, callvars, symvars, boundvars, connvars>>

\* one pass of the loop; the last one goes on to the end of the function and
\* of the wrapper
Pass(resp) ==
    /\ wpc = "loop"
    /\ resp \in answers(fn)
    /\ Len(responses) < retries
    /\ responses' = Append(responses, resp)
    /\ IF leaves_loop(fn, resp) \/ Len(responses) + 1 = retries
       THEN finish(ends_with(fn, resp))
       ELSE /\ terminal' = Append(terminal, fn)
            /\ UNCHANGED <<wpc, selected, result>>
    /\ UNCHANGED <<fn, retries, loaded>>
    /\ UNCHANGED <<clockvars, callvars, symvars, boundvars, connvars>>

\* the caller has the result or the exception
CallAgain ==
    /\ wpc = "done"
    /\ wpc' = "idle"
    /\ fn' = "none" /\ retries' = 0 /\ loaded' = FALSE /\ selected' = FALSE
    /\ terminal' = <<>> /\ responses' = <<>> /\ result' = NoResult
    /\ UNCHANGED <<clockvars, callvars, symvars, boundvars, connvars>>

NextTrade ==
    \/ \E f \in Wrapped, k \in 0..MaxRetries, ok \in BOOLEAN : Call(f, k, ok)
    \/ \E resp \in OrderResponses \cup InfoResponses \cup TickResponses : Pass(resp)
    \/ CallAgain

(***************************************************************************)
(* Connection: __enter__, the body of the with-statement, __exit__.        *)
(***************************************************************************)
\* _mt5.account_info(): None when the pipeline did not initialize, else the
\* account as far as the checks read it
NoAccount == [present |-> FALSE, trade_mode |-> "none", challenge_name |-> FALSE,
              matches |-> FALSE]

\* challenge_name: "challenge" in name.lower() and "demo" not in name.lower();
\* matches: login and server are those given to the constructor
AccountInfos ==
    {NoAccount} \cup
    [present : {TRUE}, trade_mode : {"REAL", "DEMO", "CONTEST"},
     challenge_name : BOOLEAN, matches : BOOLEAN]

check_real_trading_setting_off(rte, info) == FALSE

\* _check_real_trading_setting raises MT5Error
check_real_trading_setting(rte, info) ==
    /\ ~rte
    /\ \/ info.trade_mode = "REAL"
       \/ info.trade_mode = "DEMO" /\ info.challenge_name

\* _check_credentials raises MT5Error: self.account_info is read again on
\* every pass but never fetched again
check_credentials(info) == ~info.matches

\* what __exit__ does, in order
exit_steps(q) ==
    <<"shutdown", "terminate">> \o (IF q THEN <<"restore_terminal_ini">> ELSE <<>>)
        \o <<"unlink_config">>

InitConnection ==
    /\ kpc = "new"
    /\ quiet = FALSE /\ real_trading_enabled = FALSE
    /\ account_info = NoAccount
    /\ config_file = FALSE
    /\ terminal_ini = "original"
    /\ process = "none" /\ pipeline = "none"
    /\ steps = <<>>
    /\ raised = "none"

\* the terminal has no terminal.ini at the configured path
RemoveTerminalIni ==
    /\ kpc = "new"
    /\ terminal_ini = "original"
    /\ terminal_ini' = "missing"
    /\ UNCHANGED <<kpc, quiet, real_trading_enabled, account_info, config_file,
                   process, pipeline, steps, raised>>
    /\ UNCHANGED <<clockvars, callvars, symvars, boundvars, tradevars>>

\* __enter__: popen is whether subprocess.Popen starts the terminal, info what
\* _mt5.account_info() answers
Enter(q, rte, popen, info) ==
    /\ kpc = "new"
    /\ quiet' = q /\ real_trading_enabled' = rte
    /\ IF q /\ terminal_ini = "missing"
       THEN \* shutil.move of line 143 raises
            /\ config_file' = TRUE
            /\ steps' = <<"make_config_ini">>
            /\ raised' = "FileNotFoundError"
            /\ kpc' = "left"
            /\ UNCHANGED <<terminal_ini, process, pipeline, account_info>>
       ELSE IF ~popen
       THEN \* subprocess.Popen of line 240 raises
            /\ config_file' = TRUE
            /\ terminal_ini' = IF q THEN "quiet" ELSE "default"
            /\ steps' = <<"make_config_ini", "terminal_ini">>
            /\ raised' = "OSError"
            /\ kpc' = "left"
            /\ UNCHANGED <<process, pipeline, account_info>>
       ELSE IF ~info.present
       THEN \* self.account_info is None: line 172 or 197 raises
            /\ config_file' = TRUE
            /\ terminal_ini' = IF q THEN "quiet" ELSE "default"
            /\ process' = "running"
            /\ pipeline' = "none"
            /\ account_info' = info
            /\ steps' = <<"make_config_ini", "terminal_ini", "Popen", "initialize">>
            /\ raised' = "AttributeError"
            /\ kpc' = "left"
       ELSE IF check_real_trading_setting(rte, info) \/ check_credentials(info)
       THEN \* lines 256-258: __exit__ and the MT5Error again
            /\ config_file' = FALSE
            /\ terminal_ini' = IF q THEN "original" ELSE "default"
            /\ process' = "terminated"
            /\ pipeline' = "shutdown"
            /\ account_info' = info
            /\ steps' = <<"make_config_ini", "terminal_ini", "Popen", "initialize">>
                           \o exit_steps(q) \o <<"raise">>
            /\ raised' = "MT5Error"
            /\ kpc' = "left"
       ELSE /\ config_file' = TRUE
            /\ terminal_ini' = IF q THEN "quiet" ELSE "default"
            /\ process' = "running"
            /\ pipeline' = "initialized"
            /\ account_info' = info
            /\ steps' = <<"make_config_ini", "terminal_ini", "Popen", "initialize">>
            /\ raised' = "none"
            /\ kpc' = "body"
    /\ UNCHANGED <<clockvars, callvars, symvars, boundvars, tradevars>>

\* the body ends, normally or with exc, and __exit__ runs; it returns None,
\* so the exception goes on
Leave(exc) ==
    /\ kpc = "body"
    /\ config_file' = FALSE
    /\ terminal_ini' = IF quiet THEN "original" ELSE terminal_ini
    /\ process' = "terminated"
    /\ pipeline' = "shutdown"
    /\ steps' = steps \o <<"body">> \o exit_steps(quiet)
    /\ raised' = exc
    /\ kpc' = "left"
    /\ UNCHANGED <<quiet, real_trading_enabled, account_info>>
    /\ UNCHANGED <<clockvars, callvars, symvars, boundvars, tradevars>>

\* how the body of the with-statement ends
BodyEnds == {"none", "Exception", "MT5Error"}

NextConnection ==
    \/ RemoveTerminalIni
    \/ \E q \in BOOLEAN, rte \in BOOLEAN, popen \in BOOLEAN, info \in AccountInfos :
          Enter(q, rte, popen, info)
    \/ \E exc \in BodyEnds : Leave(exc)

(***************************************************************************)
(* The program as its caller drives it: sessions, constructions, flushes   *)
(* and, on a constructed Symbol, history calls, one operation at a time.   *)
(***************************************************************************)
ProgramTimeframes == {"M5"}

NextProgram ==
    \/ pc = "idle" /\ Connect
    \/ pc = "idle" /\ Disconnect
    \/ pc = "idle" /\ \E name \in Names : SymbolInit(name)
    \/ pc = "idle" /\ Flush
    \/ /\ all # <<>>
       /\ \E tf \in ProgramTimeframes, a \in PlainArgs, inf \in BOOLEAN :
             History(tf, a[1], a[2], 0, a[3], inf, TRUE)
    \/ \E response \in DispatchResponses : Fetch(response)
    \/ Validate
    \/ Return

Init == InitClock /\ InitCall /\ InitSymbol /\ InitBoundary /\ InitTrade /\ InitConnection

Spec == Init /\ [][Next]_vars

SpecClock == Init /\ [][NextClock]_vars

SpecDispatch == Init /\ [][NextDispatch]_vars

SpecGrid == Init /\ [][NextGrid]_vars

SpecSymbol == Init /\ [][NextSymbol]_vars

SpecProgram == Init /\ [][NextProgram]_vars

SpecBoundary == Init /\ [][NextBoundary]_vars

SpecTrade == Init /\ [][NextTrade]_vars

SpecConnection == Init /\ [][NextConnection]_vars

(***************************************************************************)
(* Properties                                                              *)
(***************************************************************************)
AllEmpty(l) == \A i \in 1..Len(l) : Len(l[i]) = 0

\* the number of empty responses before the first non-empty one
LeadingEmpty(l) ==
    CHOOSE k \in 0..Len(l) :
        /\ \A i \in 1..k : Len(l[i]) = 0
        /\ k = Len(l) \/ Len(l[k + 1]) > 0

Straddles(instants) ==
    \E t \in {DstStart, DstEnd} :
        instants[1] < t /\ t <= instants[Len(instants)]

\* C1: for every UTC instant u, mt5_date_to_utc of the wall-clock value of
\* localized_date_to_mt5(u) is u
C1_RoundTripExact ==
    cpc = "utc" => utcdate = date

\* C2: a gapless run of candles that straddles a DST transition, stamped in
\* broker wall-clock, converts row by row to UTC timestamps that ascend in
\* steps of exactly one timeframe duration
C2_RunAscendingUniform ==
    (cpc = "converted" /\ Straddles(runtrue)) =>
        \A i \in 1..(Len(runutc) - 1) : runutc[i + 1] - runutc[i] = to_seconds(runtf)

\* C3: in each of the three methods, ten empty responses end the call with
\* UnexpectedValueError
C3_ExhaustionRaisesMismatch ==
    (pc = "done" /\ calls = 10 /\ AllEmpty(log)) =>
        outcome.kind = "UnexpectedValueError"

\* C4: K < 10 empty responses and then a non-empty one make the loop issue
\* exactly K + 1 terminal calls, and the rows that go on to conversion and
\* validation are those of call K + 1
C4_StopsAtFirstNonEmpty ==
    LET K == LeadingEmpty(log)
    IN  /\ pc = "fetch" => K = Len(log) /\ calls = Len(log)
        /\ (pc = "validate" /\ K < Len(log)) =>
              K < 10 /\ calls = K + 1 /\ Len(log) = K + 1 /\ rates = log[K + 1]
        /\ (pc = "done" /\ K < Len(log)) =>
              calls = K + 1 /\ Len(log) = K + 1 /\ rates = mt5_rates_to_utc(log[K + 1])

C4_Witness ==
    pc = "validate" /\ calls = 4 /\ LeadingEmpty(log) = 3 /\ Len(rates) = 2

C5_LoopBound ==
    /\ calls <= 10
    /\ pc = "fetch" => n < 10 /\ calls = n
    /\ (pc = "validate" /\ AllEmpty(log)) =>
          calls = 10 /\ rates = <<>> /\ outcome = NoOutcome

\* C5: a call issues at most 10 terminal calls; every pass of the loop either
\* leaves it or raises the loop variable, which stays below 10, so the loop
\* ends; after ten empty responses the loop is left, no error raised, with
\* the empty result
C5_AtMostTenCalls ==
    /\ []C5_LoopBound
    /\ [][pc = "fetch" =>
            \/ pc' = "validate" /\ calls' = calls + 1
            \/ pc' = "fetch" /\ n' = n + 1 /\ calls' = calls + 1]_vars

C5_Witness ==
    pc = "validate" /\ AllEmpty(log) /\ calls = 10

\* C6: after a non-empty response no further terminal call is issued in that
\* history call, neither before nor after the validator has returned or raised
C6_NoRefetchAfterRows ==
    [][(\E i \in 1..Len(log) : Len(log[i]) > 0) =>
          (log' = log /\ calls' = calls) \/ pc' = "idle"]_vars

C6_Witness ==
    /\ pc = "done" /\ calls = 1 /\ Len(log[1]) > 0
    /\ outcome.kind = "UnexpectedValueError"

\* C7: get_rates_from_pos returns exactly count rows, or raises
\* UnexpectedValueError with expected = count and actual = the number of rows
\* last fetched
C7_FromPosExactCount ==
    (pc = "done" /\ shape = "get_rates_from_pos") =>
        \/ /\ outcome.kind = "returned"
           /\ Len(outcome.value) = count
        \/ /\ outcome.kind = "UnexpectedValueError"
           /\ outcome.expected = count
           /\ outcome.actual = Len(log[calls])
           /\ outcome.actual # count

C7_Witness ==
    /\ pc = "done" /\ shape = "get_rates_from_pos"
    /\ outcome.kind = "returned" /\ count = 2

\* C8: get_rates_from returns a series only if its last row is within one
\* timeframe duration of start and its first row within one duration of
\* start - (count - 1) * duration; rows that fail either raise
\* UnexpectedValueError
C8_FromBoundsWithinTolerance ==
    (pc = "done" /\ shape = "get_rates_from") =>
        LET d == to_seconds(timeframe)
            ok(rows) ==
                /\ Len(rows) > 0
                /\ Abs(rows[Len(rows)] - datetime_from) <= d
                /\ Abs(rows[1] - (datetime_from - (count - 1) * d)) <= d
        IN  /\ outcome.kind = "returned" => ok(outcome.value)
            /\ (Len(rates) > 0 /\ ~ok(rates)) => outcome.kind = "UnexpectedValueError"

C8_Witness ==
    /\ pc = "done" /\ shape = "get_rates_from" /\ outcome.kind = "returned"
    /\ count = 2 /\ Len(outcome.value) = 2
    /\ outcome.value[2] - datetime_from = to_seconds(timeframe)

\* C9: the start sent by get_rates_range is to_broker_local(start), plus one
\* duration for a boundary start with include_first false, minus one for an
\* off-boundary start with include_first true; the end sent is
\* to_broker_local(end), minus one duration when include_last is false
C9_RangeSentShifts ==
    (pc # "idle" /\ shape = "get_rates_range") =>
        LET d == to_seconds(timeframe)
            boundary == datetime_from % d = 0
            local(u) == IF DstStart <= u /\ u < DstEnd THEN u + 10800 ELSE u + 7200
        IN  /\ sent.fn = "copy_rates_range"
            /\ sent.a = local(datetime_from)
                          + (IF boundary /\ ~include_first THEN d ELSE 0)
                          - (IF ~boundary /\ include_first THEN d ELSE 0)
            /\ sent.b = local(datetime_to) - (IF ~include_last THEN d ELSE 0)

C9_Witness ==
    /\ pc = "fetch" /\ shape = "get_rates_range"
    /\ datetime_from % to_seconds(timeframe) = 0
    /\ ~include_first /\ ~include_last
    /\ sent.a = localized_date_to_mt5(in_utc(datetime_from)) + to_seconds(timeframe)

\* C10: get_rates_range returns a series only if its first row is within one
\* timeframe duration of the caller's start and its last row within one
\* duration of the caller's end; rows that fail either raise
\* UnexpectedValueError
C10_RangeBoundsAgainstOriginal ==
    (pc = "done" /\ shape = "get_rates_range") =>
        LET d == to_seconds(timeframe)
            ok(rows) ==
                /\ Len(rows) > 0
                /\ Abs(rows[1] - datetime_from) <= d
                /\ Abs(rows[Len(rows)] - datetime_to) <= d
        IN  /\ outcome.kind = "returned" => ok(outcome.value)
            /\ (Len(rates) > 0 /\ ~ok(rates)) => outcome.kind = "UnexpectedValueError"

C10_Witness ==
    /\ pc = "done" /\ shape = "get_rates_range" /\ outcome.kind = "returned"
    /\ ~include_first
    /\ sent.a # localized_date_to_mt5(in_utc(datetime_from))

\* the original statement of C11, for responses that have rows: a row count
\* other than ceil(|end - start| / duration) + include_first + include_last - 1
\* always ends in UnexpectedValueError(expected = that value, actual = the count)
C11_AnyOtherCountReportsCount ==
    (pc = "done" /\ shape = "get_rates_range" /\ Len(rates) > 0) =>
        LET d == to_seconds(timeframe)
            exp == ((Abs(datetime_to - datetime_from) + d - 1) \div d)
                     + (IF include_first THEN 1 ELSE 0)
                     + (IF include_last THEN 1 ELSE 0) - 1
        IN  /\ outcome.kind = "returned" => Len(outcome.value) = exp
            /\ Len(rates) # exp =>
                  /\ outcome.kind = "UnexpectedValueError"
                  /\ outcome.expected = exp
                  /\ outcome.actual = Len(rates)

\* C11 (amended): get_rates_range returns a series only if its row count is
\* ceil(|end - start| / duration) + include_first + include_last - 1; rows
\* that pass the first and last timestamp checks with another count raise
\* UnexpectedValueError(expected = that value, actual = the count)
C11_RangeCountAfterBounds ==
    (pc = "done" /\ shape = "get_rates_range") =>
        LET d == to_seconds(timeframe)
            exp == ((Abs(datetime_to - datetime_from) + d - 1) \div d)
                     + (IF include_first THEN 1 ELSE 0)
                     + (IF include_last THEN 1 ELSE 0) - 1
            bounds_ok ==
                /\ Len(rates) > 0
                /\ Abs(rates[1] - datetime_from) <= d
                /\ Abs(rates[Len(rates)] - datetime_to) <= d
        IN  /\ outcome.kind = "returned" => Len(outcome.value) = exp
            /\ (bounds_ok /\ Len(rates) # exp) =>
                  /\ outcome.kind = "UnexpectedValueError"
                  /\ outcome.expected = exp
                  /\ outcome.actual = Len(rates)
                  /\ outcome.rates = <<rates>>

C11_Witness ==
    /\ pc = "done" /\ shape = "get_rates_range" /\ Len(rates) = 1
    /\ outcome.kind = "UnexpectedValueError"
    /\ outcome.rates = <<rates>>
    /\ outcome.expected = 2 /\ outcome.actual = 1

\* C17: every UnexpectedValueError of the three methods carries expected,
\* actual, expected - actual, and the offending rows (rates is not None)
C17_MismatchCarriesRows ==
    (pc = "done" /\ outcome.kind = "UnexpectedValueError") =>
        /\ outcome.diff = outcome.expected - outcome.actual
        /\ outcome.rates # <<>>

\* C18: after a non-empty response, a series that history returns ascends in
\* steps of exactly one timeframe duration
C18_ReturnedSeriesUniform ==
    (pc = "done" /\ outcome.kind = "returned" /\ Len(log[calls]) > 0) =>
        \A i \in 1..(Len(outcome.value) - 1) :
            outcome.value[i + 1] - outcome.value[i] = to_seconds(timeframe)

\* C19: a series returned by get_rates_from has exactly count rows
C19_FromExactCount ==
    (pc = "done" /\ shape = "get_rates_from" /\ outcome.kind = "returned") =>
        Len(outcome.value) = count

\* C13: history selects get_rates_range when datetime_from and datetime_to
\* are given (count given or not), else get_rates_from when datetime_from and
\* count are given, else get_rates_from_pos when count is given, and else
\* raises its usage error with no terminal call made
C13_DispatchPrecedence ==
    pc # "idle" =>
        /\ shape = IF given.datetime_from /\ given.datetime_to THEN "get_rates_range"
                   ELSE IF given.datetime_from /\ given.count THEN "get_rates_from"
                   ELSE IF given.count THEN "get_rates_from_pos"
                   ELSE "none"
        /\ sent.fn = CASE shape = "get_rates_range" -> "copy_rates_range"
                       [] shape = "get_rates_from" -> "copy_rates_from"
                       [] shape = "get_rates_from_pos" -> "copy_rates_from_pos"
                       [] shape = "none" -> "none"
        /\ shape = "none" =>
              pc = "done" /\ outcome.kind = "AttributeError" /\ calls = 0 /\ log = <<>>

C13_Witness ==
    /\ pc = "done" /\ calls = 1 /\ shape = "get_rates_range"
    /\ given.datetime_from /\ given.datetime_to /\ given.count

OnGridInclusive ==
    /\ pc = "done" /\ shape = "get_rates_range"
    /\ include_first /\ include_last
    /\ datetime_from % to_seconds(timeframe) = 0
    /\ datetime_to % to_seconds(timeframe) = 0
    /\ datetime_from < datetime_to

WholeClosedRange ==
    /\ outcome.kind = "returned"
    /\ Len(outcome.value) = (datetime_to - datetime_from) \div to_seconds(timeframe) + 1
    /\ outcome.value[1] = datetime_from
    /\ outcome.value[Len(outcome.value)] = datetime_to

\* C12: a range whose start and end are on timeframe boundaries, both
\* included, against the terminal of the closed range, returns
\* (end - start) / duration + 1 rows, the first at start and the last at end
C12_BoundaryRangeReturnsAll ==
    OnGridInclusive => WholeClosedRange

\* the same away from the end of daylight saving time (the case of the
\* specification, M5 from 11:25Z to 11:40Z, is one of these)
BoundaryRangeReturnsAllInWinter ==
    (OnGridInclusive /\ datetime_to < DstStart) => WholeClosedRange

SpecExampleReturned ==
    /\ OnGridInclusive /\ timeframe = "M5"
    /\ datetime_from = Base /\ datetime_to = Base + 3 * to_seconds("M5")
    /\ WholeClosedRange /\ Len(outcome.value) = 4

(***************************************************************************)
(* The Symbol registry                                                     *)
(***************************************************************************)
\* the last operation was Symbol(name) and the name is not in the registry as
\* the construction left it (unpopulated, or populated without the name)
AbsentName ==
    /\ last.op = "Symbol"
    /\ (allowed_symbols = <<>> \/ last.name \notin allowed_symbols[1])

\* C14 as stated: constructing a Symbol with a name absent from the registry
\* raises ValueError and calls nothing of the terminal, whether the registry
\* was populated or not when the construction began.
C14_AbsentNameNoTerminalCall ==
    AbsentName => last.result = "ValueError" /\ last.mt5calls = <<>>

\* C14, amended: constructing a Symbol with a name absent from the registry
\* raises ValueError; it calls nothing of the terminal when the registry was
\* already populated, and exactly mt5.symbols_get(), once, when it was not.
C14_AbsentNameRaises ==
    AbsentName =>
        /\ last.result = "ValueError"
        /\ last.mt5calls = IF last.was_populated THEN <<>> ELSE <<"symbols_get">>

C14_Witness ==
    /\ AbsentName
    /\ last.name = "NOSUCH"
    /\ last.was_populated
    /\ last.result = "ValueError"
    /\ last.mt5calls = <<>>

\* C15: a Symbol construction succeeds only if a terminal session is active
\* at that moment and the name is one of the broker's symbols.
C15_SucceedsOnlyInSession ==
    last.op = "Symbol" /\ last.result = "ok" =>
        last.was_session /\ last.name \in BrokerSymbols

\* a construction met the registry unpopulated iff it called symbols_get
FetchIffUnpopulated ==
    last.op = "Symbol" =>
        /\ ~last.was_populated <=> last.mt5calls = <<"symbols_get">>
        /\ last.was_populated <=> last.mt5calls = <<>>

\* a populated registry changes only by flush, and a registry becomes
\* populated only in a construction that fetched
PopulatedUntilFlush ==
    /\ allowed_symbols # <<>> /\ allowed_symbols' # allowed_symbols =>
           allowed_symbols' = <<>> /\ last'.op = "flush"
    /\ allowed_symbols = <<>> /\ allowed_symbols' # <<>> =>
           last'.op = "Symbol" /\ last'.mt5calls = <<"symbols_get">>

FirstAfterFlush == last.op = "Symbol" /\ last.after = "flush"

\* C16 as stated: symbols_get is called during a construction iff the
\* registry is unpopulated then; at most one successful population happens
\* between two flushes; the first construction after a flush repopulates.
C16_FirstAfterFlushRepopulates ==
    /\ []FetchIffUnpopulated
    /\ [][PopulatedUntilFlush]_vars
    /\ [](FirstAfterFlush => allowed_symbols # <<>>)

\* C16, amended: symbols_get is called during a construction iff the registry
\* is unpopulated then; at most one successful population happens between two
\* flushes; the first construction after a flush fetches again, and
\* repopulates the registry iff a terminal session is active.
C16_LazyPopulation ==
    /\ []FetchIffUnpopulated
    /\ [][PopulatedUntilFlush]_vars
    /\ [](FirstAfterFlush =>
            /\ last.mt5calls = <<"symbols_get">>
            /\ allowed_symbols # <<>> <=> last.was_session)

C16_Witness ==
    /\ FirstAfterFlush
    /\ last.was_session
    /\ last.mt5calls = <<"symbols_get">>
    /\ allowed_symbols = <<BrokerSymbols>>
    /\ last.result = "ok"

(***************************************************************************)
(* localized_date_to_mt5 over callers' zones                               *)
(***************************************************************************)
\* C20: for a timezone-aware input, localized_date_to_mt5 gives, tagged UTC,
\* the input's instant plus 3 hours when US-Eastern DST is active at that
\* instant and plus 2 hours otherwise; the same instant written in any other
\* caller zone gives the identical result.
C20_InstantPlusBrokerOffset ==
    cpc = "localized" =>
        /\ mt5date = date + (IF DstStart <= date /\ date < DstEnd
                             THEN 3 * to_seconds("H1") ELSE 2 * to_seconds("H1"))
        /\ \A z \in CallerZones :
               localized_date_to_mt5(aware(date + z, z)) = mt5date

C20_Witness ==
    /\ cpc = "localized"
    /\ zone = 0 - 5 * to_seconds("H1")
    /\ DstStart <= date /\ date < DstEnd
    /\ date + zone < DstStart
    /\ mt5date = date + 3 * to_seconds("H1")

(***************************************************************************)
(* history and the class state                                             *)
(***************************************************************************)
\* a step of a history call: its entry, a pass of its loop, its checks, its
\* return or raise
HistoryStep == pc # "idle" \/ pc' # "idle"

\* between two calls nothing of a call is left
NothingLeftOfCall ==
    pc = "idle" =>
        /\ shape = "none" /\ timeframe = NoTimeframe
        /\ datetime_from = None /\ datetime_to = None
        /\ start_pos = None /\ count = None
        /\ sent = NoCall /\ n = 0 /\ calls = 0 /\ log = <<>> /\ rates = <<>>
        /\ outcome = NoOutcome /\ given = NothingGiven

\* the outcome of a call is that of the checks of its method on its own
\* arguments and the terminal's last response to it
OutcomeOfOwnCall ==
    pc = "done" /\ shape # "none" =>
        outcome =
          CASE shape = "get_rates_from_pos" ->
                 get_rates_from_pos_check(log[Len(log)], count)
            [] shape = "get_rates_from" ->
                 get_rates_from_check(log[Len(log)], timeframe, datetime_from, count)
            [] shape = "get_rates_range" ->
                 get_rates_range_check(log[Len(log)], timeframe, datetime_from,
                                       datetime_to, include_first, include_last)

\* C21: a history call, whether it returns or raises, leaves
\* Symbol.allowed_symbols and Symbol.all unchanged, and its outcome depends
\* only on its own arguments and the terminal's responses to it.
C21_HistoryLeavesRegistry ==
    /\ [][HistoryStep => allowed_symbols' = allowed_symbols /\ all' = all]_vars
    /\ []NothingLeftOfCall
    /\ []OutcomeOfOwnCall

C21_Witness ==
    /\ pc = "done"
    /\ outcome.kind = "UnexpectedValueError"
    /\ allowed_symbols = <<BrokerSymbols>>
    /\ Len(all) = 2
    /\ last.op = "Symbol"

(***************************************************************************)
(* The boundary test                                                       *)
(***************************************************************************)
\* t is a whole number of durations of tf after the epoch
WholeDurations(t, tf) == (t \div to_seconds(tf)) * to_seconds(tf) = t

\* C22: for every timeframe tf and timestamp t,
\* is_datetime_exactly_at_start_of_timeframe_range(t, tf) is True exactly when
\* t's epoch seconds modulo the duration of tf is 0.
C22_BoundaryIsEpochModulo ==
    tested # NoBoundary =>
        (tested.at_start <=> WholeDurations(tested.time, tested.timeframe))

C22_Witness ==
    /\ tested # NoBoundary
    /\ tested.timeframe = "H4"
    /\ tested.at_start
    /\ WholeDurations(tested.time, "H1")

\* C24: for every timeframe and every instant, the boundary test on the
\* caller's timestamp gives the same answer as the boundary test on the
\* broker-local timestamp sent to the terminal.
C24_SameAnswerOnSentGrid ==
    tested # NoBoundary =>
        /\ tested.at_start <=>
             is_datetime_exactly_at_start_of_timeframe_range(tested.local,
                                                             tested.timeframe)
        /\ tested.at_start <=>
             is_datetime_exactly_at_start_of_timeframe_range(tested.sent,
                                                             tested.timeframe)

\* the same for the timeframes of at most one hour
SameAnswerUpToOneHour ==
    tested # NoBoundary /\ to_seconds(tested.timeframe) <= to_seconds("H1") =>
        tested.at_start <=>
            is_datetime_exactly_at_start_of_timeframe_range(tested.sent,
                                                            tested.timeframe)

(***************************************************************************)
(* Range requests of any start and end against the closed-range terminal   *)
(***************************************************************************)
\* C23: against a terminal that holds a gapless grid and answers with every
\* candle stamped in the closed range it is sent, get_rates_range never
\* raises, for any start < end and any include_first, include_last.
C23_RangeNeverRaises ==
    (pc = "done" /\ shape = "get_rates_range" /\ datetime_from < datetime_to) =>
        outcome.kind = "returned"

\* the same away from the end of daylight saving time
RangeNeverRaisesInWinter ==
    (pc = "done" /\ shape = "get_rates_range" /\ datetime_to < DstStart) =>
        outcome.kind = "returned"

(***************************************************************************)
(* Symbol.all                                                              *)
(***************************************************************************)
NoTwoOfOneName == \A i, j \in 1..Len(all) : all[i] = all[j] => i = j

EveryNameRegistered ==
    \A i \in 1..Len(all) : allowed_symbols # <<>> /\ all[i] \in allowed_symbols[1]

EmptyAfterFlush == last.op = "flush" => all = <<>> /\ allowed_symbols = <<>>

\* C25: after any sequence of successful and failed constructions and flush
\* calls, Symbol.all holds no two entries of one name and every entry's name
\* is a key of the populated registry; a failed construction adds nothing to
\* Symbol.all; immediately after flush Symbol.all is empty and the registry
\* unpopulated.
C25_AllDistinctAndRegistered ==
    /\ [](NoTwoOfOneName /\ EveryNameRegistered /\ EmptyAfterFlush)
    /\ [][last'.result = "ValueError" => all' = all]_vars

C25_Witness ==
    /\ Len(all) = 3
    /\ last.op = "Symbol" /\ last.result = "ValueError"
    /\ last.was_populated /\ last.was_session

(***************************************************************************)
(* order_send and load_symbol                                              *)
(***************************************************************************)
\* the number of times the wrapped function called the terminal
submissions == Cardinality({ i \in 1..Len(terminal) : terminal[i] = fn })

\* C26: order_send submits the order at most `retries` times, submits again
\* only after a response whose retcode is REQUOTE or PRICE_OFF, never after a
\* None response or any other retcode, and returns the last response received.
C26_ResubmitOnlyOnRequote ==
    fn = "order_send" =>
        /\ submissions <= retries
        /\ submissions = Len(responses)
        /\ \A i \in 1..Len(responses) :
              (i < Len(responses) \/ wpc = "loop") =>
                  responses[i] \in {"REQUOTE", "PRICE_OFF"}
        /\ (wpc = "done" /\ responses # <<>>) =>
              result = [kind |-> "returned", value |-> responses[Len(responses)]]

C26_Witness ==
    /\ fn = "order_send" /\ wpc = "done"
    /\ responses = <<"REQUOTE", "PRICE_OFF", "DONE">>
    /\ submissions = 3
    /\ result = [kind |-> "returned", value |-> "DONE"]

\* C27: for every function wrapped by load_symbol, if the symbol cannot be
\* selected the function is never invoked and MT5Error is raised; and every
\* successful selection is followed by symbol_select(symbol, False) before the
\* wrapper exits, whether the function returns or raises.
C27_SelectedThenDeselected ==
    wpc = "done" =>
        /\ ~loaded => /\ result.kind = "MT5Error"
                      /\ responses = <<>>
                      /\ terminal = <<"symbol_select">>
        /\ loaded => /\ terminal[Len(terminal)] = "symbol_select(False)"
                     /\ ~selected

\* the same where the wrapped function returns
DeselectedAfterReturn ==
    wpc = "done" =>
        /\ ~loaded => /\ result.kind = "MT5Error"
                      /\ responses = <<>>
                      /\ terminal = <<"symbol_select">>
        /\ (loaded /\ result.kind = "returned") =>
                     /\ terminal[Len(terminal)] = "symbol_select(False)"
                     /\ ~selected

\* symbol_info_tick raises MT5Error after ten ticks of time 0 and the symbol
\* stays selected
TickRaisesSelected ==
    /\ wpc = "done" /\ fn = "symbol_info_tick" /\ loaded
    /\ Len(responses) = InfoAttempts
    /\ \A i \in 1..Len(responses) : responses[i] = "time=0"
    /\ result.kind = "MT5Error"
    /\ selected

(***************************************************************************)
(* Connection                                                              *)
(***************************************************************************)
\* C28: whenever __enter__ has written the config file, by the time control
\* leaves the with-statement (the body ended normally or with an exception,
\* or __enter__ failed after writing the file) the config file has been
\* deleted and the terminal process, if it was started, has been terminated.
C28_ConfigDeletedOnLeaving ==
    kpc = "left" =>
        /\ ~config_file
        /\ process # "running"

\* the same where the body was entered or __enter__ raised MT5Error
ConfigDeletedAfterBodyOrMT5Error ==
    (kpc = "left" /\ raised \in BodyEnds) =>
        /\ ~config_file
        /\ process = "terminated"

\* C29: with real_trading_enabled False and a connected account of trade
\* mode REAL, __enter__ raises MT5Error after shutting the pipeline down and
\* terminating the terminal process; the body never runs; in quiet mode the
\* original terminal.ini is restored before the error propagates.
C29_RealAccountNeverEntered ==
    (kpc # "new" /\ ~real_trading_enabled /\ account_info.trade_mode = "REAL") =>
        /\ kpc = "left"
        /\ raised = "MT5Error"
        /\ pipeline = "shutdown"
        /\ process = "terminated"
        /\ quiet => terminal_ini = "original"
        /\ steps = <<"make_config_ini", "terminal_ini", "Popen", "initialize",
                     "shutdown", "terminate">>
                   \o (IF quiet THEN <<"restore_terminal_ini">> ELSE <<>>)
                   \o <<"unlink_config", "raise">>

C29_Witness ==
    /\ kpc = "left"
    /\ ~real_trading_enabled /\ account_info.trade_mode = "REAL"
    /\ account_info.matches
    /\ quiet
    /\ raised = "MT5Error"
    /\ terminal_ini = "original"

====
